---- MODULE Spec2Model ----
(***************************************************************************)
(* Discord <-> Stoat bridge (src/bridge.py).                               *)
(*                                                                         *)
(* Spec         the bridge store (tables bridges and channels) under       *)
(*              concurrently running command handlers; every SQL statement *)
(*              is one step, because each handler awaits between its       *)
(*              statements and no transaction spans them.                  *)
(* SpecRelay    the message handlers of both platforms forwarding over a   *)
(*              store left by earlier commands; every await is one step.   *)
(* SpecWatchdog StoatBot.keep_alive_loop against discrete time, with the   *)
(*              fairness of the event loop: a task that can run does run.  *)
(***************************************************************************)
EXTENDS Integers, Sequences, FiniteSets, TLC

\* ---------------------------------------------------------------- bounds
NumTasks    == 2      \* handler tasks that may be in flight at once
MaxEvents   == 3      \* inbound command events accepted in one run (Spec)
MaxBridges  == 2      \* bridges of the stores SpecRelay starts from
MaxMessages == 1      \* user messages accepted in one run (SpecRelay)
MaxPings    == 2      \* pings the keepalive loop sends in one run
MaxReady    == 2      \* ready events of the Stoat session in one run
MaxStoatMessages == 2 \* Stoat messages in flight at once (SpecWebhook)
MaxSessionEvents == 2 \* events a running session handles in one run (SpecMain)
Margin      == 2      \* string lengths tried on either side of each limit

\* ------------------------------------------------------ program constants
PongTimeout == 10     \* wait_for(self.pong_event.wait(), timeout=10.0)
RestSleep   == 30     \* asyncio.sleep(30) between pings
RetrySleep  == 5      \* asyncio.sleep(5) without transport or after an error
MaxBody          == 2000   \* content=content[:2000]
DiscordNameLimit == 80     \* username=username[:80]
StoatNameLimit   == 32     \* name=username[:32]

\* -------------------------------------------------------------- universe
Platforms  == {"discord", "stoat"}
\* The channels of the runs: two on Discord, one on Stoat.
Keys       == {<<"discord", 100>>, <<"stoat", 200>>, <<"discord", 300>>}
Tasks      == 1..NumTasks
None       == 0
NoKey      == <<"none", 0>>

VARIABLES
    bridges,          \* table bridges: the set of ids
    channels,         \* table channels: bag of rows [bridge_id, platform, channel_id]
    bridges_id_seq,   \* SERIAL of bridges.id: last value handed out
    task,             \* per handler task: position, arguments, locals, outcome
    hist,             \* per task: what the store looked like and who wrote since
    lastLeft,         \* key of the latest successful DELETE, no write since
    nEvents,          \* inbound user events accepted so far
    inbox,            \* events the platforms hold for the relay's own posts
    sends,            \* bag of <<origin, destination>>: messages delivered
    webhooks,         \* relay-owned webhooks per Discord channel
    wd,               \* the Stoat session and its keepalive task
    wire,             \* one call of an adapter's send: arguments and payload
    main              \* main(): its position and the two session tasks

storeVars == <<bridges, channels, bridges_id_seq>>
relayVars == <<inbox, sends, webhooks>>
vars == <<bridges, channels, bridges_id_seq, task, hist, lastLeft, nEvents,
          inbox, sends, webhooks, wd, wire, main>>

\* ------------------------------------------------------------- SQL layer
\* A table without its serial id column is a bag of rows: a function from the
\* rows present to how many copies there are.  A query result, a list in no
\* particular order, is a bag too.
EmptyBagOfRows == [r \in {} |-> 0]

Copies(bag, r) == IF r \in DOMAIN bag THEN bag[r] ELSE 0

AddRow(bag, r) ==
    [x \in DOMAIN bag \cup {r} |-> Copies(bag, x) + (IF x = r THEN 1 ELSE 0)]

Size(bag) ==
    LET RECURSIVE Sum(_)
        Sum(D) == IF D = {} THEN 0
                  ELSE LET x == CHOOSE y \in D : TRUE
                       IN  bag[x] + Sum(D \ {x})
    IN  Sum(DOMAIN bag)

RowsOf(tbl, platform, channel_id) ==
    {r \in DOMAIN tbl : r.platform = platform /\ r.channel_id = channel_id}

\* The bridges the rows of pair k name, {None} without a row.
BridgeOf(tbl, k) ==
    IF RowsOf(tbl, k[1], k[2]) = {} THEN {None}
    ELSE {r.bridge_id : r \in RowsOf(tbl, k[1], k[2])}

\* The lookup with its WHERE clause lost: the bridge of any row.
SelectAnyBridge(tbl, platform, channel_id) ==
    IF DOMAIN tbl = {} THEN {None} ELSE {r.bridge_id : r \in DOMAIN tbl}

\* SELECT bridge_id FROM channels WHERE platform = $1 AND channel_id = $2
\* (fetchval: the value of the first row found, None without a row); a set,
\* because with several rows any of them may come first.
select_bridge_id(tbl, platform, channel_id) ==
    LET rs == RowsOf(tbl, platform, channel_id)
    IN  IF rs = {} THEN {None} ELSE {r.bridge_id : r \in rs}

\* SELECT id FROM bridges WHERE id = $1
select_bridge(tbl, bridge_id) ==
    IF bridge_id \in tbl THEN bridge_id ELSE None

Columns(tbl, rs) ==
    LET out == {[platform |-> r.platform, channel_id |-> r.channel_id] : r \in rs}
    IN  [o \in out |->
            Size([r \in {x \in rs : x.platform = o.platform
                                    /\ x.channel_id = o.channel_id} |-> tbl[r]])]

\* SELECT platform, channel_id FROM channels WHERE bridge_id = $1
select_members(tbl, bridge_id) ==
    Columns(tbl, {r \in DOMAIN tbl : r.bridge_id = bridge_id})

\* The query without its NOT (...) clause: the sender is among the rows.
SelectWithSender(tbl, bridge_id, platform, channel_id) ==
    Columns(tbl, {r \in DOMAIN tbl : r.bridge_id = bridge_id})

\* ... WHERE bridge_id = $1 AND NOT (platform = $2 AND channel_id = $3)
select_others(tbl, bridge_id, platform, channel_id) ==
    Columns(tbl, {r \in DOMAIN tbl :
                    /\ r.bridge_id = bridge_id
                    /\ ~(r.platform = platform /\ r.channel_id = channel_id)})

\* The table without its UNIQUE constraint: no INSERT is rejected.
NoUniqueConstraint(tbl, platform, channel_id) == FALSE

\* UNIQUE (platform, channel_id): an INSERT of a second row for the pair fails
unique_violation(tbl, platform, channel_id) ==
    RowsOf(tbl, platform, channel_id) # {}

NewRow(bridge_id, platform, channel_id) ==
    [bridge_id |-> bridge_id, platform |-> platform, channel_id |-> channel_id]

\* ---------------------------------------------------------- handler tasks
IdleTask ==
    [pc |-> "idle", cmd |-> "none", platform |-> "none", channel_id |-> 0,
     arg |-> None, existing |-> None, bridge_id |-> None,
     rows |-> EmptyBagOfRows,
     err |-> "none", reply |-> "none",
     \* the inbound message event and the forwarding loop (SpecRelay)
     author |-> "none", content |-> "none", origin |-> 0,
     todo |-> EmptyBagOfRows, dest |-> NoKey,
     attempted |-> {}, failed |-> {}, commanded |-> FALSE]

IdleHist == [pre |-> None, afterLeave |-> FALSE, dirty |-> FALSE, wrote |-> FALSE]

Commands == {"create", "join", "leave", "status", "message"}

FirstPc(cmd) ==
    CASE cmd = "create"  -> "create_select"
      [] cmd = "join"    -> "join_select_bridge"
      [] cmd = "leave"   -> "leave_delete"
      [] cmd = "status"  -> "status_select_bridge"
      [] cmd = "message" -> "dest_select_bridge"

ValueErrors == {"AlreadyBound", "BridgeNotFound", "NotBound"}

\* A task whose handler has returned, or that never ran.
Free(q) == task[q].pc \in {"idle", "done", "dests"}

\* Task p wrote the store: every other task that has started has been
\* interfered with.
HistWrite(p) ==
    [q \in Tasks |->
        IF q = p THEN [hist[q] EXCEPT !.wrote = TRUE]
        ELSE IF task[q].pc = "idle" THEN hist[q]
        ELSE [hist[q] EXCEPT !.dirty = TRUE]]

DiscordChannels == {k[2] : k \in {x \in Keys : x[1] = "discord"}}

\* Nothing is being relayed.
RelayIdle ==
    /\ task = [p \in Tasks |-> IdleTask]
    /\ hist = [p \in Tasks |-> IdleHist]
    /\ lastLeft = NoKey
    /\ nEvents = 0
    /\ inbox = {}
    /\ sends = EmptyBagOfRows
    /\ webhooks = [c \in DiscordChannels |-> 0]

\* StoatBot.__init__: no keepalive task, pong_event clear.
WdStart ==
    [closed |-> FALSE, ws |-> FALSE, keep_alive_task |-> FALSE, pc |-> "none",
     pong_event |-> FALSE, timer |-> 0, pinged |-> FALSE, pings |-> 0,
     timedOut |-> FALSE, readies |-> 0, byOwner |-> FALSE]

\* No send is being made.
NoCall ==
    [pc |-> "none", platform |-> "none", content |-> <<>>, username |-> <<>>,
     sent_content |-> <<>>, sent_name |-> <<>>]

\* main() has not run: no session object exists.
MainStart ==
    [pc |-> "init_db", discord |-> "none", stoat |-> "none",
     events |-> [s \in {"discord", "stoat"} |-> 0]]

\* init_db: the tables exist and are empty.
Init ==
    /\ bridges = {}
    /\ channels = EmptyBagOfRows
    /\ bridges_id_seq = 0
    /\ RelayIdle
    /\ wd = WdStart
    /\ wire = NoCall
    /\ main = MainStart

\* ------------------------------------------------- command front ends
\* StoatBot.handle_bridge_command: ValueError is answered with its text,
\* every other exception with the generic internal-error reply.
handle_bridge_command(subcommand, err) ==
    IF err = "none" THEN "ok"
    ELSE IF err \in ValueErrors THEN "error"
    ELSE "internal"

\* bridge_create: the id is sent by DM, or in the channel when DMs are closed;
\* only ValueError is caught.
bridge_create(err, dm) ==
    IF err = "none" THEN (IF dm = "sent" THEN "ok" ELSE "ok_nodm")
    ELSE IF err \in ValueErrors THEN "error"
    ELSE "unhandled"

\* bridge_join: ValueError and discord.Forbidden are caught.
bridge_join(err, dm) ==
    IF err = "none" THEN (IF dm = "sent" THEN "ok" ELSE "ok_nodm")
    ELSE IF err \in ValueErrors THEN "error"
    ELSE "unhandled"

\* bridge_leave: only ValueError is caught.
bridge_leave(err) ==
    IF err = "none" THEN "ok"
    ELSE IF err \in ValueErrors THEN "error"
    ELSE "unhandled"

\* bridge_status: no handler at all.
bridge_status(err) ==
    IF err = "none" THEN "ok" ELSE "unhandled"

ReplyOf(t, err, dm) ==
    IF t.platform = "stoat" THEN handle_bridge_command(t.cmd, err)
    ELSE CASE t.cmd = "create" -> bridge_create(err, dm)
           [] t.cmd = "join"   -> bridge_join(err, dm)
           [] t.cmd = "leave"  -> bridge_leave(err)
           [] OTHER            -> bridge_status(err)

\* The confirmation DM exists on Discord only, for create and join.
DmOutcomes(t, err) ==
    IF t.platform = "discord" /\ t.cmd \in {"create", "join"} /\ err = "none"
    THEN {"sent", "Forbidden"} ELSE {"sent"}

\* The store function of task p ends with err and the front end replies.
Finished(p, t, err) ==
    \E dm \in DmOutcomes(t, err) :
        task' = [task EXCEPT ![p] =
                    [t EXCEPT !.pc = "done", !.err = err,
                              !.reply = ReplyOf(t, err, dm)]]

\* An inbound event starts a handler task.
Receive(p) ==
    /\ Free(p)
    /\ nEvents < MaxEvents
    /\ \A q \in Tasks : Free(q) => p <= q
    /\ \E cmd \in Commands, k \in Keys, b \in 1..(bridges_id_seq + 1) :
      \E pre \in BridgeOf(channels, k) :
        /\ (cmd # "join") => b = 1
        /\ task' = [task EXCEPT ![p] =
                [IdleTask EXCEPT !.pc = FirstPc(cmd), !.cmd = cmd,
                                 !.platform = k[1], !.channel_id = k[2],
                                 !.arg = IF cmd = "join" THEN b ELSE None]]
        /\ hist' = [hist EXCEPT ![p] =
                [pre |-> pre,
                 afterLeave |-> (lastLeft = k),
                 dirty |-> FALSE, wrote |-> FALSE]]
    /\ nEvents' = nEvents + 1
    /\ UNCHANGED <<storeVars, lastLeft>>
    /\ UNCHANGED <<relayVars, wd, wire, main>>

\* ---- create_bridge --------------------------------------------------
create_select(p) ==
    /\ task[p].pc = "create_select"
    /\ \E existing \in select_bridge_id(channels, task[p].platform,
                                         task[p].channel_id) :
         LET t == task[p]
         IN  IF existing # None
             THEN Finished(p, [t EXCEPT !.existing = existing], "AlreadyBound")
             ELSE task' = [task EXCEPT ![p].pc = "create_insert_bridge"]
    /\ UNCHANGED <<storeVars, hist, lastLeft, nEvents>>
    /\ UNCHANGED <<relayVars, wd, wire, main>>

create_insert_bridge(p) ==
    /\ task[p].pc = "create_insert_bridge"
    /\ bridges_id_seq' = bridges_id_seq + 1
    /\ bridges' = bridges \cup {bridges_id_seq + 1}
    /\ task' = [task EXCEPT ![p].pc = "create_insert_channel",
                            ![p].bridge_id = bridges_id_seq + 1]
    /\ hist' = HistWrite(p)
    /\ lastLeft' = NoKey
    /\ UNCHANGED <<channels, nEvents>>
    /\ UNCHANGED <<relayVars, wd, wire, main>>

\* INSERT INTO channels (bridge_id, platform, channel_id) VALUES ($1, $2, $3)
\* by task p.
insert_channel(p, bridge_id) ==
    LET t == task[p]
    IN  /\ IF unique_violation(channels, t.platform, t.channel_id)
           THEN /\ Finished(p, t, "UniqueViolationError")
                /\ UNCHANGED <<channels, hist, lastLeft>>
           ELSE /\ channels' = AddRow(channels,
                                NewRow(bridge_id, t.platform, t.channel_id))
                /\ Finished(p, t, "none")
                /\ hist' = HistWrite(p)
                /\ lastLeft' = NoKey
        /\ UNCHANGED <<bridges, bridges_id_seq, nEvents, relayVars, wd, wire, main>>

create_insert_channel(p) ==
    /\ task[p].pc = "create_insert_channel"
    /\ insert_channel(p, task[p].bridge_id)

\* ---- join_bridge ----------------------------------------------------
join_select_bridge(p) ==
    /\ task[p].pc = "join_select_bridge"
    /\ LET t == task[p]
           exists == select_bridge(bridges, t.arg)
       IN  IF exists = None
           THEN Finished(p, t, "BridgeNotFound")
           ELSE task' = [task EXCEPT ![p].pc = "join_select_channel"]
    /\ UNCHANGED <<storeVars, hist, lastLeft, nEvents>>
    /\ UNCHANGED <<relayVars, wd, wire, main>>

\* join_bridge without "if existing == bridge_id: return".
JoinRejectsMember(existing, bridge_id) ==
    IF existing # None THEN "raise" ELSE "insert"

\* What join_bridge does with the binding it read: "return" (already in this
\* bridge), "raise" (in another bridge) or "insert".
join_decision(existing, bridge_id) ==
    IF existing # None
    THEN (IF existing = bridge_id THEN "return" ELSE "raise")
    ELSE "insert"

join_select_channel(p) ==
    /\ task[p].pc = "join_select_channel"
    /\ \E existing \in select_bridge_id(channels, task[p].platform,
                                         task[p].channel_id) :
         LET t == task[p]
             u == [t EXCEPT !.existing = existing]
             d == join_decision(existing, t.arg)
         IN  CASE d = "return" -> Finished(p, u, "none")
               [] d = "raise"  -> Finished(p, u, "AlreadyBound")
               [] OTHER        -> task' = [task EXCEPT ![p].pc = "join_insert"]
    /\ UNCHANGED <<storeVars, hist, lastLeft, nEvents>>
    /\ UNCHANGED <<relayVars, wd, wire, main>>

join_insert(p) ==
    /\ task[p].pc = "join_insert"
    /\ insert_channel(p, task[p].arg)

\* ---- leave_bridge ---------------------------------------------------
\* A DELETE that removes no row.
DeleteNothing(tbl, platform, channel_id) == tbl

\* DELETE FROM channels WHERE platform = $1 AND channel_id = $2: the rows
\* that remain.
delete_channel(tbl, platform, channel_id) ==
    [r \in DOMAIN tbl \ RowsOf(tbl, platform, channel_id) |-> tbl[r]]

leave_delete(p) ==
    /\ task[p].pc = "leave_delete"
    /\ LET t == task[p]
           rs == RowsOf(channels, t.platform, t.channel_id)
           deleted == Size([r \in rs |-> channels[r]])
       IN  IF deleted = 0
           THEN /\ Finished(p, t, "NotBound")
                /\ UNCHANGED <<channels, hist, lastLeft>>
           ELSE /\ channels' = delete_channel(channels, t.platform, t.channel_id)
                /\ Finished(p, t, "none")
                /\ hist' = HistWrite(p)
                /\ lastLeft' = <<t.platform, t.channel_id>>
    /\ UNCHANGED <<bridges, bridges_id_seq, nEvents>>
    /\ UNCHANGED <<relayVars, wd, wire, main>>

\* ---- get_bridge_status ----------------------------------------------
status_select_bridge(p) ==
    /\ task[p].pc = "status_select_bridge"
    /\ \E bridge_id \in select_bridge_id(channels, task[p].platform,
                                          task[p].channel_id) :
         IF bridge_id = None
         THEN Finished(p, task[p], "none")
         ELSE task' = [task EXCEPT ![p].pc = "status_select_channels",
                                   ![p].bridge_id = bridge_id]
    /\ UNCHANGED <<storeVars, hist, lastLeft, nEvents>>
    /\ UNCHANGED <<relayVars, wd, wire, main>>

status_select_channels(p) ==
    /\ task[p].pc = "status_select_channels"
    /\ LET t == task[p]
       IN  Finished(p, [t EXCEPT !.rows = select_members(channels, t.bridge_id)],
                    "none")
    /\ UNCHANGED <<storeVars, hist, lastLeft, nEvents>>
    /\ UNCHANGED <<relayVars, wd, wire, main>>

\* ---- get_bridge_destinations ----------------------------------------
dest_select_bridge(p) ==
    /\ task[p].pc = "dest_select_bridge"
    /\ \E bridge_id \in select_bridge_id(channels, task[p].platform,
                                          task[p].channel_id) :
         IF bridge_id = None
         THEN task' = [task EXCEPT ![p].pc = "dests"]
         ELSE task' = [task EXCEPT ![p].pc = "dest_select_rows",
                                   ![p].bridge_id = bridge_id]
    /\ UNCHANGED <<storeVars, hist, lastLeft, nEvents>>
    /\ UNCHANGED <<relayVars, wd, wire, main>>

dest_select_rows(p) ==
    /\ task[p].pc = "dest_select_rows"
    /\ LET t == task[p]
           rows == select_others(channels, t.bridge_id, t.platform, t.channel_id)
       IN  task' = [task EXCEPT ![p].pc = "dests", ![p].rows = rows,
                                ![p].todo = rows]
    /\ UNCHANGED <<storeVars, hist, lastLeft, nEvents>>
    /\ UNCHANGED <<relayVars, wd, wire, main>>

Next ==
    \E p \in Tasks :
        \/ Receive(p)
        \/ create_select(p)
        \/ create_insert_bridge(p)
        \/ create_insert_channel(p)
        \/ join_select_bridge(p)
        \/ join_select_channel(p)
        \/ join_insert(p)
        \/ leave_delete(p)
        \/ status_select_bridge(p)
        \/ status_select_channels(p)
        \/ dest_select_bridge(p)
        \/ dest_select_rows(p)

Spec == Init /\ [][Next]_vars

\* ================================================================ SpecRelay
\* The relay dispatcher: inbound message events of both platforms, handled by
\* concurrent tasks, over a store that create/join/leave calls have left.

\* The stores create_bridge, join_bridge and leave_bridge can leave behind:
\* MaxBridges bridges, every pair in at most one of them.
StoreOf(f) ==
    [r \in {NewRow(f[k], k[1], k[2]) : k \in {x \in Keys : f[x] # None}} |-> 1]

InitRelay ==
    /\ bridges = 1..MaxBridges
    /\ bridges_id_seq = MaxBridges
    /\ \E f \in [Keys -> {None} \cup (1..MaxBridges)] : channels = StoreOf(f)
    /\ RelayIdle
    /\ wd = WdStart
    /\ wire = NoCall
    /\ main = MainStart

Contents == {"text", "bridge_command", "dbridger_other", "empty"}

\* on_message_create without "if msg.author_id == self.me.id: return".
StoatIgnoresAuthor(author, content) ==
    IF content = "bridge_command" THEN "command"
    ELSE IF content # "empty" THEN "forward"
    ELSE "ignore"

\* StoatBot.on_message_create up to its first await: what becomes of the event.
StoatBot_on_message_create(author, content) ==
    IF author = "self" THEN "ignore"
    ELSE IF content = "bridge_command" THEN "command"
    ELSE IF content # "empty" THEN "forward"
    ELSE "ignore"

\* DiscordBot.on_message up to get_bridge_destinations.
DiscordBot_on_message(author, content) ==
    IF author \in {"bot", "webhook"} THEN "ignore"
    ELSE IF content \in {"bridge_command", "dbridger_other"} THEN "command"
    ELSE "forward"

on_message(platform, author, content) ==
    IF platform = "stoat" THEN StoatBot_on_message_create(author, content)
    ELSE DiscordBot_on_message(author, content)

\* The loops of on_message_create (if dest_platform == 'discord') and of
\* on_message (if dest_platform == 'stoat'): is the row sent to?
forwards_to(platform, dest_platform) ==
    \/ platform = "stoat" /\ dest_platform = "discord"
    \/ platform = "discord" /\ dest_platform = "stoat"

\* Where the handler goes when a send raises: send_to_discord and send_to_stoat
\* catch Exception and log it, so the loop goes on.
send_failed == "dests"

\* How the relay's post shows up as an event on the destination platform: on
\* Discord as a webhook message, on Stoat as a message of the bot's account.
EchoAuthor(platform) == IF platform = "discord" THEN "webhook" ELSE "self"

RelayFree(q) == task[q].pc \in {"idle", "done"}

\* Task p starts on an event of platform k[1], channel k[2].
Dispatch(p, k, author, content, origin) ==
    LET what == on_message(k[1], author, content)
    IN  /\ task' = [task EXCEPT ![p] =
                [IdleTask EXCEPT
                    !.pc = IF what = "forward" THEN "dest_select_bridge" ELSE "done",
                    !.cmd = "message", !.platform = k[1], !.channel_id = k[2],
                    !.author = author, !.content = content, !.origin = origin,
                    !.commanded = (what = "command")]]
        /\ \E pre \in BridgeOf(channels, k) :
              hist' = [hist EXCEPT ![p] = [IdleHist EXCEPT !.pre = pre]]

\* A user posts a message in a channel.
ReceiveUser(p) ==
    /\ RelayFree(p)
    /\ \A q \in Tasks : RelayFree(q) => p <= q
    /\ nEvents < MaxMessages
    /\ \E k \in Keys, content \in Contents :
          Dispatch(p, k, "user", content, nEvents + 1)
    /\ nEvents' = nEvents + 1
    /\ UNCHANGED <<storeVars, lastLeft, relayVars, wd, wire, main>>

\* The platform delivers the event of one of the relay's own posts.
ReceiveEcho(p) ==
    /\ RelayFree(p)
    /\ \A q \in Tasks : RelayFree(q) => p <= q
    /\ \E e \in inbox :
        /\ Dispatch(p, <<e.platform, e.channel_id>>, e.author, e.content, e.origin)
        /\ inbox' = inbox \ {e}
    /\ UNCHANGED <<storeVars, lastLeft, nEvents, sends, webhooks, wd, wire, main>>

\* "if not dests: return", and one turn of "for row in dests".
forward_next(p) ==
    /\ task[p].pc = "dests"
    /\ LET t == task[p]
       IN  IF t.todo = EmptyBagOfRows
           THEN task' = [task EXCEPT ![p].pc = "done"]
           ELSE \E row \in DOMAIN t.todo :
                  LET rest == [r \in DOMAIN t.todo \ {row} |-> t.todo[r]]
                      k == <<row.platform, row.channel_id>>
                  IN  IF forwards_to(t.platform, row.platform)
                      THEN task' = [task EXCEPT
                              ![p].pc = IF row.platform = "discord"
                                        THEN "discord_fetch_channel"
                                        ELSE "stoat_fetch_channel",
                              ![p].todo = rest, ![p].dest = k,
                              ![p].attempted = t.attempted \cup {k}]
                      ELSE task' = [task EXCEPT ![p].todo = rest]
    /\ UNCHANGED <<storeVars, hist, lastLeft, nEvents, relayVars, wd, wire, main>>

\* An await of a send returns (ok) or raises.
SendStep(p, from, to) ==
    /\ task[p].pc = from
    /\ \E ok \in BOOLEAN :
          IF ok THEN task' = [task EXCEPT ![p].pc = to]
          ELSE task' = [task EXCEPT ![p].pc = send_failed,
                            ![p].failed = task[p].failed \cup {task[p].dest}]

\* The message is posted: it is delivered and its event will come back.
Posted(p) ==
    LET t == task[p]
    IN  /\ sends' = AddRow(sends, <<t.origin, t.dest>>)
        /\ inbox' = inbox \cup
                {[platform |-> t.dest[1], channel_id |-> t.dest[2],
                  author |-> EchoAuthor(t.dest[1]), content |-> t.content,
                  origin |-> t.origin]}

\* ---- StoatBot.send_to_discord ---------------------------------------
\* discord_bot.get_channel(...) or await discord_bot.fetch_channel(...)
discord_fetch_channel(p) ==
    /\ SendStep(p, "discord_fetch_channel", "discord_webhooks")
    /\ UNCHANGED <<storeVars, hist, lastLeft, nEvents, relayVars, wd, wire, main>>

\* await channel.webhooks(), then the search for one the relay owns
discord_webhooks(p) ==
    /\ SendStep(p, "discord_webhooks",
                IF webhooks[task[p].dest[2]] > 0 THEN "discord_webhook_send"
                ELSE "discord_create_webhook")
    /\ UNCHANGED <<storeVars, hist, lastLeft, nEvents, relayVars, wd, wire, main>>

\* await channel.create_webhook(name="Stoat Bridge")
discord_create_webhook(p) ==
    /\ SendStep(p, "discord_create_webhook", "discord_webhook_send")
    /\ webhooks' = IF task'[p].pc = "discord_webhook_send"
                   THEN [webhooks EXCEPT ![task[p].dest[2]] = @ + 1]
                   ELSE webhooks
    /\ UNCHANGED <<storeVars, hist, lastLeft, nEvents, inbox, sends, wd, wire, main>>

\* await webhook.send(...)
discord_webhook_send(p) ==
    /\ SendStep(p, "discord_webhook_send", "dests")
    /\ IF task'[p].failed = task[p].failed
       THEN Posted(p) ELSE UNCHANGED <<inbox, sends>>
    /\ UNCHANGED <<storeVars, hist, lastLeft, nEvents, webhooks, wd, wire, main>>

\* ---- DiscordBot.send_to_stoat ---------------------------------------
\* await stoat_bot.fetch_channel(channel_id)
stoat_fetch_channel(p) ==
    /\ SendStep(p, "stoat_fetch_channel", "stoat_channel_send")
    /\ UNCHANGED <<storeVars, hist, lastLeft, nEvents, relayVars, wd, wire, main>>

\* await channel.send(..., masquerade=...)
stoat_channel_send(p) ==
    /\ SendStep(p, "stoat_channel_send", "dests")
    /\ IF task'[p].failed = task[p].failed
       THEN Posted(p) ELSE UNCHANGED <<inbox, sends>>
    /\ UNCHANGED <<storeVars, hist, lastLeft, nEvents, webhooks, wd, wire, main>>

SendPcs == {"discord_fetch_channel", "discord_webhooks",
            "discord_create_webhook", "discord_webhook_send",
            "stoat_fetch_channel", "stoat_channel_send"}

NextRelay ==
    \E p \in Tasks :
        \/ ReceiveUser(p)
        \/ ReceiveEcho(p)
        \/ dest_select_bridge(p)
        \/ dest_select_rows(p)
        \/ forward_next(p)
        \/ discord_fetch_channel(p)
        \/ discord_webhooks(p)
        \/ discord_create_webhook(p)
        \/ discord_webhook_send(p)
        \/ stoat_fetch_channel(p)
        \/ stoat_channel_send(p)

SpecRelay == InitRelay /\ [][NextRelay]_vars

\* ============================================================== SpecWebhook
\* send_to_discord under several Stoat messages at once: the Stoat side of
\* the relay alone, over the same stores.

\* A user posts a text message in a Stoat channel.
ReceiveStoat(p) ==
    /\ RelayFree(p)
    /\ \A q \in Tasks : RelayFree(q) => p <= q
    /\ nEvents < MaxStoatMessages
    /\ \E k \in {x \in Keys : x[1] = "stoat"} :
          Dispatch(p, k, "user", "text", nEvents + 1)
    /\ nEvents' = nEvents + 1
    /\ UNCHANGED <<storeVars, lastLeft, relayVars, wd, wire, main>>

NextWebhook ==
    \E p \in Tasks :
        \/ ReceiveStoat(p)
        \/ dest_select_bridge(p)
        \/ dest_select_rows(p)
        \/ forward_next(p)
        \/ discord_fetch_channel(p)
        \/ discord_webhooks(p)
        \/ discord_create_webhook(p)
        \/ discord_webhook_send(p)

SpecWebhook == InitRelay /\ [][NextWebhook]_vars

\* ============================================================= SpecWatchdog
\* StoatBot's session and keep_alive_loop.  wd.timer counts down the time left
\* of the current wait_for or sleep; time does not pass beyond a deadline
\* before the task it wakes has run.
InitWatchdog ==
    /\ bridges = {}
    /\ channels = EmptyBagOfRows
    /\ bridges_id_seq = 0
    /\ RelayIdle
    /\ wd = WdStart
    /\ wire = NoCall
    /\ main = MainStart

WdFrame ==
    UNCHANGED <<storeVars, task, hist, lastLeft, nEvents, relayVars, wire, main>>

\* StoatBot.on_ready: the session is connected; the keepalive task is created
\* unless self.keep_alive_task is set.
on_ready ==
    /\ ~wd.closed
    /\ wd.readies < MaxReady
    /\ wd' = [wd EXCEPT !.ws = TRUE, !.readies = @ + 1,
                        !.keep_alive_task = TRUE,
                        !.pc = IF wd.keep_alive_task THEN @ ELSE "top"]
    /\ WdFrame

\* The transport is lost; the client library reconnects on its own.
Disconnect ==
    /\ ~wd.closed
    /\ wd.ws
    /\ wd' = [wd EXCEPT !.ws = FALSE]
    /\ WdFrame

\* The owning session closes the client.
owner_close ==
    /\ ~wd.closed
    /\ wd.readies > 0
    /\ wd' = [wd EXCEPT !.closed = TRUE, !.ws = FALSE, !.byOwner = TRUE]
    /\ WdFrame

\* "self.close() should trigger the main loop to exit or reconnect depending
\* on lib": after the close of a ping timeout the library may open a new
\* session, whose ready event then follows.
reconnect ==
    /\ wd.closed
    /\ ~wd.byOwner
    /\ wd.pc = "exited"
    /\ wd.readies < MaxReady
    /\ wd' = [wd EXCEPT !.closed = FALSE, !.timedOut = FALSE,
                        !.pinged = FALSE, !.pong_event = FALSE]
    /\ WdFrame

\* StoatBot.on_socket_response with {"op": "PONG"}: the answer to a ping.
on_socket_response ==
    /\ ~wd.closed
    /\ wd.pinged
    /\ wd' = [wd EXCEPT !.pong_event = TRUE, !.pinged = FALSE]
    /\ WdFrame

\* A loop condition that never sees the client closed.
NeverClosed == FALSE

\* self.is_closed()
is_closed == wd.closed

\* "while not self.is_closed()" and step 1 up to the await of send_json: the
\* ping goes out, or send_json raises, or there is no transport.
keep_alive_top ==
    /\ wd.pc = "top"
    /\ \/ /\ is_closed
          /\ wd' = [wd EXCEPT !.pc = "exited"]
       \/ /\ ~is_closed /\ ~wd.ws
          /\ wd' = [wd EXCEPT !.pc = "retry", !.timer = RetrySleep]
       \/ /\ ~is_closed /\ wd.ws
          /\ wd.pings < MaxPings
          /\ \/ wd' = [wd EXCEPT !.pc = "sending", !.pinged = TRUE,
                                 !.pings = @ + 1]
             \/ wd' = [wd EXCEPT !.pc = "retry", !.timer = RetrySleep]
    /\ WdFrame

\* send_json returns; self.pong_event.clear(); wait_for(..., timeout=10.0)
keep_alive_sent ==
    /\ wd.pc = "sending"
    /\ wd' = [wd EXCEPT !.pc = "waiting", !.pong_event = FALSE,
                        !.timer = PongTimeout]
    /\ WdFrame

\* The wait for the pong returns: step 3, asyncio.sleep(30).
keep_alive_pong ==
    /\ wd.pc = "waiting"
    /\ wd.pong_event
    /\ wd' = [wd EXCEPT !.pc = "rest", !.timer = RestSleep]
    /\ WdFrame

\* The loop going round again on asyncio.TimeoutError.
IgnoreTimeout == "top"

\* Where the loop goes on asyncio.TimeoutError: await self.close(); break
after_timeout == "closing"

keep_alive_timeout ==
    /\ wd.pc = "waiting"
    /\ ~wd.pong_event
    /\ wd.timer = 0
    /\ wd' = [wd EXCEPT !.pc = after_timeout, !.timedOut = TRUE]
    /\ WdFrame

\* await self.close() returns; break
keep_alive_close ==
    /\ wd.pc = "closing"
    /\ wd' = [wd EXCEPT !.pc = "exited", !.closed = TRUE, !.ws = FALSE]
    /\ WdFrame

\* A sleep is over: back to the loop condition.
keep_alive_wake ==
    /\ wd.pc \in {"rest", "retry"}
    /\ wd.timer = 0
    /\ wd' = [wd EXCEPT !.pc = "top"]
    /\ WdFrame

\* One time unit passes.
Tick ==
    /\ wd.pc \in {"waiting", "rest", "retry"}
    /\ wd.timer > 0
    /\ wd' = [wd EXCEPT !.timer = @ - 1]
    /\ WdFrame

keep_alive_loop ==
    \/ keep_alive_top
    \/ keep_alive_sent
    \/ keep_alive_pong
    \/ keep_alive_timeout
    \/ keep_alive_close
    \/ keep_alive_wake

NextWatchdog ==
    \/ on_ready
    \/ Disconnect
    \/ owner_close
    \/ reconnect
    \/ on_socket_response
    \/ keep_alive_top
    \/ keep_alive_sent
    \/ keep_alive_pong
    \/ keep_alive_timeout
    \/ keep_alive_close
    \/ keep_alive_wake
    \/ Tick

SpecWatchdog ==
    /\ InitWatchdog /\ [][NextWatchdog]_vars
    /\ WF_vars(keep_alive_loop)
    /\ WF_vars(Tick)

\* ============================================================== SpecAdapter
\* The payloads of send_to_discord and send_to_stoat.  A string is the
\* sequence of its characters.

\* The string of n characters the runs use: no two positions within a window
\* of 7 alike.
Text(n) == [i \in 1..n |-> i % 7]

\* s[:n]
slice(s, n) == SubSeq(s, 1, IF Len(s) < n THEN Len(s) ELSE n)

\* One limit for the names of both platforms.
SameNameLimit(platform) == DiscordNameLimit

\* username[:80] in send_to_discord, username[:32] in send_to_stoat
name_limit(platform) ==
    IF platform = "discord" THEN DiscordNameLimit ELSE StoatNameLimit

Around(n) == {l \in (n - Margin)..(n + Margin) : l >= 0}

\* A send is called with a body and an author name of lengths around the
\* limits, or short.
InitAdapter ==
    /\ bridges = {}
    /\ channels = EmptyBagOfRows
    /\ bridges_id_seq = 0
    /\ RelayIdle
    /\ wd = WdStart
    /\ main = MainStart
    /\ \E platform \in Platforms,
          b \in {0, 1} \cup Around(MaxBody),
          n \in {1} \cup Around(StoatNameLimit) \cup Around(DiscordNameLimit) :
          wire = [NoCall EXCEPT !.pc = "call", !.platform = platform,
                                !.content = Text(b), !.username = Text(n)]

AdapterFrame ==
    UNCHANGED <<storeVars, task, hist, lastLeft, nEvents, relayVars, wd, main>>

\* webhook.send(content=content[:2000], username=username[:80], ...)
send_to_discord ==
    /\ wire.pc = "call"
    /\ wire.platform = "discord"
    /\ wire' = [wire EXCEPT !.pc = "sent",
                            !.sent_content = slice(wire.content, MaxBody),
                            !.sent_name = slice(wire.username,
                                                name_limit("discord"))]
    /\ AdapterFrame

\* channel.send(content=content[:2000], masquerade=Masquerade(name=username[:32]))
send_to_stoat ==
    /\ wire.pc = "call"
    /\ wire.platform = "stoat"
    /\ wire' = [wire EXCEPT !.pc = "sent",
                            !.sent_content = slice(wire.content, MaxBody),
                            !.sent_name = slice(wire.username,
                                                name_limit("stoat"))]
    /\ AdapterFrame

NextAdapter == send_to_discord \/ send_to_stoat

SpecAdapter == InitAdapter /\ [][NextAdapter]_vars

\* ================================================================= SpecMain
\* main(): init_db, then asyncio.gather(discord_bot.start(...),
\* stoat_bot.start()) under asyncio.run.  A session task is "start" (created),
\* "connecting", "running", and ends "returned" (closed), "failed" (start()
\* raised) or "cancelled".
InitMain ==
    /\ bridges = {}
    /\ channels = EmptyBagOfRows
    /\ bridges_id_seq = 0
    /\ RelayIdle
    /\ wd = WdStart
    /\ wire = NoCall
    /\ main = MainStart

MainFrame ==
    UNCHANGED <<storeVars, task, hist, lastLeft, nEvents, relayVars, wd, wire>>

Other(s) == IF s = "discord" THEN "stoat" ELSE "discord"

\* The configuration test and init_db pass and gather creates both session
\* tasks, or the process exits before there is any session.
main_start ==
    /\ main.pc = "init_db"
    /\ \/ main' = [main EXCEPT !.pc = "gather", !.discord = "start",
                                !.stoat = "start"]
       \/ main' = [main EXCEPT !.pc = "over"]
    /\ MainFrame

\* A step of start(): login, connection, then the session runs.
session_step(s) ==
    /\ main.pc = "gather"
    /\ main[s] \in {"start", "connecting"}
    /\ main' = [main EXCEPT ![s] = IF main[s] = "start" THEN "connecting"
                                   ELSE "running"]
    /\ MainFrame

\* A running session handles an event.
session_event(s) ==
    /\ main.pc = "gather"
    /\ main[s] = "running"
    /\ main.events[s] < MaxSessionEvents
    /\ main' = [main EXCEPT !.events[s] = @ + 1]
    /\ MainFrame

\* start() raises: a failed login, a connection error.
session_fails(s) ==
    /\ main.pc = "gather"
    /\ main[s] \in {"start", "connecting", "running"}
    /\ main' = [main EXCEPT ![s] = "failed"]
    /\ MainFrame

\* start() returns: the session was closed.
session_returns(s) ==
    /\ main.pc = "gather"
    /\ main[s] = "running"
    /\ main' = [main EXCEPT ![s] = "returned"]
    /\ MainFrame

\* How asyncio.run leaves a session task when main() has raised: it cancels
\* every task that is not done.
cancel_all_tasks(state) ==
    IF state \in {"start", "connecting", "running"} THEN "cancelled" ELSE state

\* gather (return_exceptions=False) hands the first exception to main(),
\* which raises it; asyncio.run then cancels the remaining tasks.
gather_raises ==
    /\ main.pc = "gather"
    /\ \E s \in Platforms : main[s] = "failed"
    /\ main' = [main EXCEPT !.pc = "over",
                            !.discord = cancel_all_tasks(main.discord),
                            !.stoat = cancel_all_tasks(main.stoat)]
    /\ MainFrame

\* Both sessions have returned: gather returns and main() ends.
gather_returns ==
    /\ main.pc = "gather"
    /\ \A s \in Platforms : main[s] = "returned"
    /\ main' = [main EXCEPT !.pc = "over"]
    /\ MainFrame

NextMain ==
    \/ main_start
    \/ gather_raises
    \/ gather_returns
    \/ \E s \in Platforms :
          \/ session_step(s)
          \/ session_event(s)
          \/ session_fails(s)
          \/ session_returns(s)

SpecMain == InitMain /\ [][NextMain]_vars

\* ======================================================== claims on Spec
KeyOf(t) == <<t.platform, t.channel_id>>

Bindings(k) == Size([r \in RowsOf(channels, k[1], k[2]) |-> channels[r]])

\* Task p has returned from cmd and no other task wrote the store since the
\* event that started it arrived.
Undisturbed(p, cmd) ==
    /\ task[p].cmd = cmd
    /\ task[p].pc \in {"done", "dests"}
    /\ ~hist[p].dirty

\* C1: in every reachable state of the store a (platform, channel) pair has at
\* most one row in channels, whatever the interleaving of the statements of
\* concurrent create_bridge, join_bridge and leave_bridge calls.
C1_AtMostOneBinding == \A k \in Keys : Bindings(k) <= 1

\* C1 witness: two calls raced for one pair; one row is there and the other
\* INSERT was rejected.
C1_Witness ==
    \E p \in Tasks :
        /\ task[p].err = "UniqueViolationError"
        /\ Bindings(KeyOf(task[p])) = 1

\* C2: a join_bridge(b, pair) that ends while the pair is bound to a bridge
\* other than b (b existing) ends with AlreadyBound and has left the store
\* as it was, in every interleaving.
C2_JoinFailsAlreadyBound ==
    [][\A p \in Tasks :
        (/\ task[p].cmd = "join"
         /\ task[p].pc # "done"
         /\ task'[p].pc = "done"
         /\ task[p].arg \in bridges
         /\ \E b \in BridgeOf(channels, <<task[p].platform, task[p].channel_id>>) :
                b # None /\ b # task[p].arg)
        => (task'[p].err = "AlreadyBound" /\ UNCHANGED storeVars)]_vars

\* C3: join_bridge(b, pair) called when the pair is already in bridge b, and
\* not interfered with, returns without error, writes nothing and leaves
\* exactly one binding of the pair, in b.
C3_JoinIdempotent ==
    \A p \in Tasks :
        (Undisturbed(p, "join") /\ hist[p].pre = task[p].arg)
        => /\ task[p].err = "none"
           /\ ~hist[p].wrote
           /\ Bindings(KeyOf(task[p])) = 1
           /\ BridgeOf(channels, KeyOf(task[p])) = {task[p].arg}

\* C3 witness: a join of a pair already in that bridge has returned.
C3_Witness ==
    \E p \in Tasks :
        /\ Undisturbed(p, "join")
        /\ hist[p].pre = task[p].arg
        /\ task[p].pc = "done"

\* C4: get_bridge_status called right after a successful leave_bridge of the
\* same pair returns (None, []); leave_bridge of a bound pair succeeds and
\* unbinds it; leave_bridge of an unbound pair fails with NotBound and writes
\* nothing.
C4_LeaveThenStatus ==
    \A p \in Tasks :
        /\ (Undisturbed(p, "status") /\ hist[p].afterLeave)
           => /\ task[p].err = "none"
              /\ task[p].bridge_id = None
              /\ task[p].rows = EmptyBagOfRows
        /\ (Undisturbed(p, "leave") /\ hist[p].pre # None)
           => /\ task[p].err = "none"
              /\ Bindings(KeyOf(task[p])) = 0
        /\ (Undisturbed(p, "leave") /\ hist[p].pre = None)
           => /\ task[p].err = "NotBound"
              /\ ~hist[p].wrote

\* C4 witness: a status call that followed a successful leave has returned.
C4_Witness ==
    \E p \in Tasks : Undisturbed(p, "status") /\ hist[p].afterLeave

\* The members of bridge b other than the pair k, each once.
OtherMembers(b, k) ==
    [o \in {[platform |-> m[1], channel_id |-> m[2]] :
                m \in {m \in Keys \ {k} : b \in BridgeOf(channels, m)}} |-> 1]

\* C5: get_bridge_destinations for a bound sender, not interfered with,
\* returns every other member of the sender's bridge exactly once and never
\* the sender.
C5_ResolveDestinations ==
    \A p \in Tasks :
        (Undisturbed(p, "message") /\ hist[p].pre # None)
        => task[p].rows = OtherMembers(hist[p].pre, KeyOf(task[p]))

\* C5 witness: a bound sender whose bridge has another member was resolved.
C5_Witness ==
    \E p \in Tasks :
        /\ Undisturbed(p, "message")
        /\ hist[p].pre # None
        /\ task[p].rows # EmptyBagOfRows

\* C13: a bridge command whose store call raised anything but AlreadyBound,
\* BridgeNotFound or NotBound is answered with the internal-error reply, on
\* either platform.
C13_UnexpectedErrorsAnswered ==
    \A p \in Tasks :
        (/\ task[p].pc = "done"
         /\ task[p].cmd \in {"create", "join", "leave", "status"}
         /\ task[p].err \notin ValueErrors \cup {"none"})
        => task[p].reply = "internal"

\* C19: a get_bridge_status that returned a bridge id returned a member list
\* with the caller's own binding in it, each binding once.
C19_StatusSnapshot ==
    \A p \in Tasks :
        (/\ task[p].pc = "done"
         /\ task[p].cmd = "status"
         /\ task[p].bridge_id # None)
        => /\ [platform |-> task[p].platform, channel_id |-> task[p].channel_id]
                \in DOMAIN task[p].rows
           /\ \A o \in DOMAIN task[p].rows : task[p].rows[o] = 1

\* C20: a create_bridge that ended in an error has written nothing, and no
\* row of bridges is its own.
C20_CreateAllOrNothing ==
    \A p \in Tasks :
        (/\ task[p].pc = "done"
         /\ task[p].cmd = "create"
         /\ task[p].err # "none")
        => /\ ~hist[p].wrote
           /\ task[p].bridge_id \notin bridges

\* ==================================================== claims on SpecRelay
UserMessage(p) == task[p].cmd = "message" /\ task[p].author = "user"

MemberKeys(bag) == {<<o.platform, o.channel_id>> : o \in DOMAIN bag}

\* C6: get_bridge_destinations for an unbound sender returns the empty list
\* without error and without writing the store, and the handler then starts
\* no send and delivers nothing for that message.
C6_UnboundNoForward ==
    \A p \in Tasks :
        (UserMessage(p) /\ hist[p].pre = None)
        => /\ task[p].pc \in {"dest_select_bridge", "dests", "done"}
           /\ task[p].rows = EmptyBagOfRows
           /\ task[p].err = "none"
           /\ task[p].attempted = {}
           /\ ~hist[p].wrote
           /\ \A k \in Keys : Copies(sends, <<task[p].origin, k>>) = 0

\* C6 witness: a user's text message in an unbound channel has been handled,
\* through get_bridge_destinations.
C6_Witness ==
    \E p \in Tasks :
        /\ UserMessage(p)
        /\ hist[p].pre = None
        /\ task[p].content = "text"
        /\ task[p].pc = "done"

\* C7: when the handler of a user's plain text message in a bound channel is
\* over, a send has been attempted to every other member of the bridge,
\* whatever its platform.
C7_CompleteRelayGraph ==
    \A p \in Tasks :
        (/\ UserMessage(p)
         /\ task[p].content = "text"
         /\ task[p].pc = "done"
         /\ hist[p].pre # None)
        => task[p].attempted
               = MemberKeys(OtherMembers(hist[p].pre, KeyOf(task[p])))

\* C8: when a send of a message has failed, the handler goes on with its
\* loop, nothing is replied to the sender, and once the handler is over a
\* send has been attempted to every destination of the message.
C8_IsolatedForwarding ==
    \A p \in Tasks :
        (UserMessage(p) /\ task[p].failed # {})
        => /\ task[p].pc \in {"dests", "done"} \cup SendPcs
           /\ task[p].reply = "none"
           /\ task[p].pc = "done" => MemberKeys(task[p].rows) \subseteq task[p].attempted

\* The part of C8 that concerns the destinations the loops do send to (those
\* of the other platform): a failed send stops none of the others.
IsolationAcrossPlatforms ==
    \A p \in Tasks :
        (UserMessage(p) /\ task[p].failed # {})
        => /\ task[p].pc \in {"dests", "done"} \cup SendPcs
           /\ task[p].reply = "none"
           /\ task[p].pc = "done"
              => {k \in MemberKeys(task[p].rows) :
                      forwards_to(task[p].platform, k[1])} \subseteq task[p].attempted

\* C9: the event of one of the relay's own posts (author is the bot's own
\* account on Stoat, a webhook or bot on Discord) is dropped, with no send
\* and no command run, and no message is delivered twice to a channel.
C9_NoReingestion ==
    /\ \A p \in Tasks :
          task[p].author \in {"self", "webhook", "bot"}
          => /\ task[p].pc = "done"
             /\ task[p].attempted = {}
             /\ ~task[p].commanded
    /\ \A x \in DOMAIN sends : sends[x] <= 1

\* C9 witness: the event of a post of the relay has been handled.
C9_Witness ==
    \E p \in Tasks :
        /\ task[p].author \in {"self", "webhook"}
        /\ task[p].pc = "done"
        /\ sends # EmptyBagOfRows

\* C17: while a send of a message is pending and the message has another
\* destination the loop sends to, the handler can begin that next send.
C17_SendsNotSerialised ==
    \A p \in Tasks :
        (/\ UserMessage(p)
         /\ task[p].pc \in SendPcs
         /\ \E row \in DOMAIN task[p].todo :
                forwards_to(task[p].platform, row.platform))
        => ENABLED forward_next(p)

\* C18: a Discord channel never has more than one webhook created by the
\* relay, whatever the number and interleaving of the sends to it.
C18_SingleWebhook ==
    \A c \in DiscordChannels : webhooks[c] <= 1

C11_WatchdogRecreated ==
    (wd.readies > 0 /\ wd.ws /\ ~wd.closed)
    => wd.pc \notin {"none", "exited"}

\* C15: the wait for the pong times out only when no pong has come since the
\* ping was sent, and with the pong observed the wait ends in the rest of
\* RestSleep time units.
C15_PongMakesHealthy ==
    /\ [][(~wd.timedOut /\ wd'.timedOut) => wd.pinged]_vars
    /\ [][(wd.pc = "waiting" /\ ~wd.pinged /\ wd'.pc # "waiting")
            => (wd'.pc = "rest" /\ wd'.timer = RestSleep)]_vars

\* C16: after the owner has closed the client no ping is sent and the
\* keepalive task exits, wherever it was.
C16_OwnerCloseExits ==
    /\ [][wd.byOwner => wd'.pings = wd.pings]_vars
    /\ (wd.byOwner ~> wd.pc = "exited")

\* C16 witness: the owner closed the client while the loop slept, and the
\* loop has exited without a ping timeout.
C16_Witness ==
    /\ wd.byOwner
    /\ wd.pc = "exited"
    /\ ~wd.timedOut
    /\ wd.pings > 0

\* ================================================== claims on SpecAdapter
\* out is the first limit characters of s when s is longer than limit, and s
\* itself otherwise.
CutTo(out, s, limit) ==
    /\ Len(s) > limit => (Len(out) = limit /\ \A i \in 1..limit : out[i] = s[i])
    /\ Len(s) <= limit => out = s

\* C12: the body sent is the original cut to 2000 characters, the author
\* name sent is the original cut to 80 characters on Discord and to 32 on
\* Stoat; shorter strings are sent as they are.
C12_Truncation ==
    wire.pc = "sent"
    => /\ CutTo(wire.sent_content, wire.content, 2000)
       /\ CutTo(wire.sent_name, wire.username,
                IF wire.platform = "discord" THEN 80 ELSE 32)

\* C12 witness: a body and a name beyond the limits have been sent to Stoat.
C12_Witness ==
    /\ wire.pc = "sent"
    /\ wire.platform = "stoat"
    /\ Len(wire.content) > 2000
    /\ Len(wire.username) > 32
    /\ Len(wire.username) < 80

\* ===================================================== claims on SpecMain
\* C14: when the start task of one session has failed, the other session is
\* not cancelled.
C14_IndependentSessions ==
    \A s \in Platforms :
        main[s] = "failed" => main[Other(s)] # "cancelled"

====
